---- MODULE Spec2Model ----
(***************************************************************************)
(* validate_tfexamples_in_tfrecord                                         *)
(* (tensorflow_data_validation/utils/validation_lib.py).                   *)
(*                                                                         *)
(* Two invocations of the function run against one file system.  Each      *)
(* invocation walks through the statements of the function body; the Beam  *)
(* pipeline is run stage by stage when the `with` block exits.  Paths are  *)
(* sequences of path components, relative to the working directory <<>>.   *)
(***************************************************************************)
EXTENDS Naturals, Sequences, FiniteSets, TLC

\* ---- bounds --------------------------------------------------------------
MaxOk   == 2      \* well-formed records in an input file
MaxBad  == 1      \* records violating one required-feature constraint
MaxTemp == 2      \* directory names tempfile.mkdtemp() can draw from

\* ---- values --------------------------------------------------------------
None == "None"
Invocations == {"c1", "c2"}

NonePath == << "<None>" >>                 \* output_path = None
TempRoot == << "tmp" >>
TempFileName == "anomaly_stats.tfrecord"
TempDirs == { Append(TempRoot, ToString(t)) : t \in 1..MaxTemp }

\* caller-supplied output paths: a bare file name, a path with two missing
\* ancestors, a second file in the same directory, a path below the first one
CallerPaths == { << "f" >>, << "a", "b", "f" >>, << "a", "b", "g" >>, << "a", "b", "f", "g" >> }

RequiredFeatures == {"X", "Y"}
Schema   == [present |-> TRUE,  required |-> RequiredFeatures]
NoSchema == [present |-> FALSE, required |-> {}]

Rep(n, x) == [k \in 1..n |-> x]
Raw(features) == [tfrecord |-> features]

DataLocations == {"clean", "oneR", "mixed"}
DataAt(loc) ==
  CASE loc = "clean" -> Rep(MaxOk, Raw({"X", "Y"}))
    [] loc = "oneR"  -> Rep(MaxOk, Raw({"X", "Y"})) \o Rep(MaxBad, Raw({"Y"}))
    [] loc = "mixed" -> << Raw({"X", "Y"}), Raw({}) >> \o Rep(MaxBad, Raw({"X"}))

\* ---- os.path ---------------------------------------------------------------
Dirname(p) == SubSeq(p, 1, Len(p) - 1)
Join(d, name) == Append(d, name)
Prefixes(p) == { SubSeq(p, 1, k) : k \in 1..Len(p) }
ProperPrefixes(p) == { SubSeq(p, 1, k) : k \in 1..(Len(p) - 1) }

\* ---- tempfile.mkdtemp ------------------------------------------------------
\* faulty variant: tempfile.gettempdir() in place of mkdtemp()
MkdtempShared(dirsv, filesv) == { TempRoot }
Mkdtemp(dirsv, filesv) == { d \in TempDirs : d \notin dirsv /\ d \notin DOMAIN filesv }

\* ---- tf.gfile --------------------------------------------------------------
DirPresent(dirsv, p) == p = << >> \/ p \in dirsv

GfileExists(dirsv, filesv, p) == p # << >> /\ (p \in dirsv \/ p \in DOMAIN filesv)

MakeDirsBlocked(filesv, p) == \E q \in ProperPrefixes(p) : q \in DOMAIN filesv

\* faulty variant: os.makedirs, which raises on the empty path
MakeDirsErrorOnEmpty(dirsv, filesv, p) ==
  IF p = << >> THEN "NotFoundError"
  ELSE IF MakeDirsBlocked(filesv, p) THEN "FailedPreconditionError" ELSE None
\* faulty variant: a MakeDirs that raises when the directory exists
\* (tf.gfile.MakeDirs succeeds on an existing directory)
MakeDirsErrorOnExisting(dirsv, filesv, p) ==
  IF p \in dirsv THEN "AlreadyExistsError"
  ELSE IF MakeDirsBlocked(filesv, p) THEN "FailedPreconditionError" ELSE None
MakeDirsError(dirsv, filesv, p) ==
  IF MakeDirsBlocked(filesv, p) THEN "FailedPreconditionError" ELSE None

MakeDirs(dirsv, filesv, p) == dirsv \cup (Prefixes(p) \ DOMAIN filesv)

\* ---- pipeline stages -------------------------------------------------------
Stages == << "ReadData", "DecodeData", "DetectAnomalies",
             "GenerateSummaryStatistics", "WriteStatsOutput" >>
StageSet == { Stages[k] : k \in 1..Len(Stages) }
StageError(stage) == << "PipelineError", stage >>
NoError == << None >>

ReadFromTFRecord(file_pattern) == DataAt(file_pattern)

DecodeTFExample(records) == [k \in DOMAIN records |-> [features |-> records[k].tfrecord]]

AnomalyReasons(example, stats_options) ==
  { << f, "missing" >> : f \in (stats_options.schema.required \ example.features) }

\* a bag of (anomaly reason, example) pairs; k identifies the example
IdentifyAnomalousExamples(examples, stats_options) ==
  UNION { { << r, k >> : r \in AnomalyReasons(examples[k], stats_options) } : k \in DOMAIN examples }

AllExamplesKey == << "All Examples", "" >>
SliceStats(name, n) == [name |-> name, num_examples |-> n]

\* faulty variant: a global slice added to the per-reason slices
GenerateSlicedStatisticsWithGlobal(sliced) ==
  << [datasets |->
        { SliceStats(key, Cardinality({ t \in sliced : t[1] = key })) : key \in { t[1] : t \in sliced } }
        \cup { SliceStats(AllExamplesKey, Cardinality({ t[2] : t \in sliced })) }] >>
GenerateSlicedStatisticsImpl(sliced) ==
  << [datasets |->
        { SliceStats(key, Cardinality({ t \in sliced : t[1] = key })) : key \in { t[1] : t \in sliced } }] >>

ProtoCoderEncode(proto) == [coder |-> "DatasetFeatureStatisticsList", payload |-> proto]
ProtoCoderDecode(rec) == rec.payload

\* faulty variant: Beam's default shard_name_template
DefaultShardNameTemplate == "-SSSSS-of-NNNNN"
ShardNameTemplate == ""
ShardedFileName(path, template) ==
  IF template = "" THEN path ELSE [path EXCEPT ![Len(path)] = @ \o template]

CanWriteFile(dirsv, filesv, path) ==
  /\ DirPresent(dirsv, Dirname(path))
  /\ path \notin dirsv

WriteToTFRecord(filesv, path, pcollection) ==
  [p \in DOMAIN filesv \cup {path} |->
     IF p = path THEN [k \in DOMAIN pcollection |-> ProtoCoderEncode(pcollection[k])]
     ELSE filesv[p]]

\* load_statistics: the first record of the file, parsed
CanLoadStatistics(filesv, path) == path \in DOMAIN filesv /\ Len(filesv[path]) > 0
LoadStatistics(filesv, path) == ProtoCoderDecode(Head(filesv[path]))

\* ---- statement order of the function body -----------------------------------
Order == << "check_schema", "resolve", "exists", "makedirs", "construct",
            "ReadData", "DecodeData", "DetectAnomalies",
            "GenerateSummaryStatistics", "WriteStatsOutput", "load" >>
\* faulty variants: load_statistics called inside the `with` block (before the
\* pipeline runs), and before the write stage
OrderLoadInsideWith ==
         << "check_schema", "resolve", "exists", "makedirs", "construct", "load",
            "ReadData", "DecodeData", "DetectAnomalies",
            "GenerateSummaryStatistics", "WriteStatsOutput" >>
OrderLoadBeforeWrite ==
         << "check_schema", "resolve", "exists", "makedirs", "construct",
            "ReadData", "DecodeData", "DetectAnomalies",
            "GenerateSummaryStatistics", "load", "WriteStatsOutput" >>

IndexIn(order, s) == CHOOSE k \in 1..Len(order) : order[k] = s
StepAfterIn(order, s) ==
  IF IndexIn(order, s) = Len(order) THEN "returned" ELSE order[IndexIn(order, s) + 1]

StepAfterLoadInsideWith(s) == StepAfterIn(OrderLoadInsideWith, s)
StepAfterLoadBeforeWrite(s) == StepAfterIn(OrderLoadBeforeWrite, s)
StepAfter(s) == StepAfterIn(Order, s)

\* ---- state -------------------------------------------------------------------
VARIABLES
  pc,              \* statement each invocation is at
  args,            \* data_location, stats_options, output_path, pipeline_options
  output_path,     \* the local output_path (resolved at line 80)
  dir_exists,      \* value of tf.gfile.Exists(output_dir_path) at line 82
  pipeline,        \* the beam.Pipeline of the invocation
  pcoll,           \* the PCollection flowing between the stages
  result,          \* {} or {the returned DatasetFeatureStatisticsList}
  err,             \* the exception the call ended with
  dirs,            \* file system: directories
  files,           \* file system: regular files and their records
  done,            \* history: statements completed by the invocation
  runs,            \* history: number of pipeline runs of the invocation
  failed_at,       \* history: statement that raised
  created,         \* history: directories the invocation created
  written          \* history: file paths the invocation wrote

vars == << pc, args, output_path, dir_exists, pipeline, pcoll, result,
           err, dirs, files, done, runs, failed_at, created, written >>

fs == << dirs, files >>

NoPipeline == [constructed |-> FALSE, options |-> None]
OutputDirPath(i) == Dirname(output_path[i])

StaleStats == [datasets |-> { SliceStats(<< "stale", "missing" >>, 1) }]

Init ==
  /\ pc = [i \in Invocations |-> "idle"]
  /\ args = [i \in Invocations |->
               [data_location |-> "clean", stats_options |-> [schema |-> NoSchema],
                output_path |-> NonePath, pipeline_options |-> None]]
  /\ output_path = [i \in Invocations |-> NonePath]
  /\ dir_exists = [i \in Invocations |-> FALSE]
  /\ pipeline = [i \in Invocations |-> NoPipeline]
  /\ pcoll = [i \in Invocations |-> << >>]
  /\ result = [i \in Invocations |-> {}]
  /\ err = [i \in Invocations |-> NoError]
  /\ dirs = { TempRoot }
  /\ files = [p \in { << "f" >> } |-> << ProtoCoderEncode(StaleStats) >>]
  /\ done = [i \in Invocations |-> << >>]
  /\ runs = [i \in Invocations |-> 0]
  /\ failed_at = [i \in Invocations |-> None]
  /\ created = [i \in Invocations |-> {}]
  /\ written = [i \in Invocations |-> << >>]

\* ---- the call -------------------------------------------------------------------
Active(i) == pc[i] \notin {"idle", "returned", "failed"}

Record(i, s) == done' = [done EXCEPT ![i] = Append(@, s)]

Raise(i, s, e) ==
  /\ pc' = [pc EXCEPT ![i] = "failed"]
  /\ err' = [err EXCEPT ![i] = e]
  /\ failed_at' = [failed_at EXCEPT ![i] = s]

\* entry: the caller's arguments are bound (lines 37-44)
Call(i) ==
  /\ pc[i] = "idle"
  /\ \E loc \in DataLocations, sch \in {Schema, NoSchema},
        out \in CallerPaths \cup {NonePath}, opts \in {None, "DirectRunner"} :
       /\ args' = [args EXCEPT ![i] = [data_location |-> loc, stats_options |-> [schema |-> sch],
                                       output_path |-> out, pipeline_options |-> opts]]
       /\ output_path' = [output_path EXCEPT ![i] = out]
  /\ pc' = [pc EXCEPT ![i] = Order[1]]
  /\ UNCHANGED << dir_exists, pipeline, pcoll, result, err, fs,
                  done, runs, failed_at, created, written >>

\* one call at a time: the caller is single-threaded
CallSeq(i) ==
  /\ \A j \in Invocations \ {i} : ~Active(j)
  /\ Call(i)

\* faulty variant: the schema check left out
SchemaMissingNever(stats_options) == FALSE
\* lines 77-78
SchemaMissing(stats_options) == ~stats_options.schema.present

CheckSchema(i) ==
  /\ pc[i] = "check_schema"
  /\ IF SchemaMissing(args[i].stats_options)
     THEN /\ Raise(i, "check_schema", << "ValueError" >>)
          /\ UNCHANGED done
     ELSE /\ pc' = [pc EXCEPT ![i] = StepAfter("check_schema")]
          /\ Record(i, "check_schema")
          /\ UNCHANGED << err, failed_at >>
  /\ UNCHANGED << args, output_path, dir_exists, pipeline, pcoll, result, fs,
                  runs, created, written >>

\* lines 79-81
ResolveOutputPath(i) ==
  /\ pc[i] = "resolve"
  /\ IF output_path[i] = NonePath
     THEN \E d \in Mkdtemp(dirs, files) :
            /\ output_path' = [output_path EXCEPT ![i] = Join(d, TempFileName)]
            /\ dirs' = dirs \cup {d}
            /\ created' = [created EXCEPT ![i] = @ \cup ({d} \ dirs)]
     ELSE UNCHANGED << output_path, dirs, created >>
  /\ pc' = [pc EXCEPT ![i] = StepAfter("resolve")]
  /\ Record(i, "resolve")
  /\ UNCHANGED << args, dir_exists, pipeline, pcoll, result, err, files,
                  runs, failed_at, written >>

\* line 82
CheckDirExists(i) ==
  /\ pc[i] = "exists"
  /\ LET e == GfileExists(dirs, files, OutputDirPath(i)) IN
       /\ dir_exists' = [dir_exists EXCEPT ![i] = e]
       /\ pc' = [pc EXCEPT ![i] = IF e THEN StepAfter("makedirs") ELSE StepAfter("exists")]
  /\ Record(i, "exists")
  /\ UNCHANGED << args, output_path, pipeline, pcoll, result, err, fs,
                  runs, failed_at, created, written >>

\* line 83
MakeDirsStep(i) ==
  /\ pc[i] = "makedirs"
  /\ LET e == MakeDirsError(dirs, files, OutputDirPath(i)) IN
       IF e # None
       THEN /\ Raise(i, "makedirs", << e >>)
            /\ UNCHANGED << dirs, created, done >>
       ELSE /\ dirs' = MakeDirs(dirs, files, OutputDirPath(i))
            /\ created' = [created EXCEPT ![i] = @ \cup (dirs' \ dirs)]
            /\ pc' = [pc EXCEPT ![i] = StepAfter("makedirs")]
            /\ Record(i, "makedirs")
            /\ UNCHANGED << err, failed_at >>
  /\ UNCHANGED << args, output_path, dir_exists, pipeline, pcoll, result, files,
                  runs, written >>

\* line 85: beam.Pipeline(options=pipeline_options), and the transforms applied to it
ConstructPipeline(i) ==
  /\ pc[i] = "construct"
  /\ pipeline' = [pipeline EXCEPT ![i] = [constructed |-> TRUE, options |-> args[i].pipeline_options]]
  /\ pc' = [pc EXCEPT ![i] = StepAfter("construct")]
  /\ Record(i, "construct")
  /\ UNCHANGED << args, output_path, dir_exists, pcoll, result, err, fs,
                  runs, failed_at, created, written >>

\* faulty variant: the exception caught, the function going on to line 102
StageFailsSwallowed(i, stage) ==
  /\ pc' = [pc EXCEPT ![i] = "load"]
  /\ failed_at' = [failed_at EXCEPT ![i] = stage]
  /\ UNCHANGED err
\* a stage raises: the exception leaves the `with` block and the function (lines 85-100)
StageFails(i, stage) == Raise(i, stage, StageError(stage))

\* line 88
ReadData(i) ==
  /\ pc[i] = "ReadData"
  /\ runs' = [runs EXCEPT ![i] = @ + 1]
  /\ \/ /\ pcoll' = [pcoll EXCEPT ![i] = ReadFromTFRecord(args[i].data_location)]
        /\ pc' = [pc EXCEPT ![i] = StepAfter("ReadData")]
        /\ Record(i, "ReadData")
        /\ UNCHANGED << err, failed_at >>
     \/ /\ StageFails(i, "ReadData")
        /\ UNCHANGED << pcoll, done >>
  /\ UNCHANGED << args, output_path, dir_exists, pipeline, result, fs,
                  created, written >>

\* line 89
DecodeData(i) ==
  /\ pc[i] = "DecodeData"
  /\ \/ /\ pcoll' = [pcoll EXCEPT ![i] = DecodeTFExample(pcoll[i])]
        /\ pc' = [pc EXCEPT ![i] = StepAfter("DecodeData")]
        /\ Record(i, "DecodeData")
        /\ UNCHANGED << err, failed_at >>
     \/ /\ StageFails(i, "DecodeData")
        /\ UNCHANGED << pcoll, done >>
  /\ UNCHANGED << args, output_path, dir_exists, pipeline, result, fs,
                  runs, created, written >>

\* lines 90-91
DetectAnomalies(i) ==
  /\ pc[i] = "DetectAnomalies"
  /\ \/ /\ pcoll' = [pcoll EXCEPT ![i] = IdentifyAnomalousExamples(pcoll[i], args[i].stats_options)]
        /\ pc' = [pc EXCEPT ![i] = StepAfter("DetectAnomalies")]
        /\ Record(i, "DetectAnomalies")
        /\ UNCHANGED << err, failed_at >>
     \/ /\ StageFails(i, "DetectAnomalies")
        /\ UNCHANGED << pcoll, done >>
  /\ UNCHANGED << args, output_path, dir_exists, pipeline, result, fs,
                  runs, created, written >>

\* lines 92-94
GenerateSummaryStatistics(i) ==
  /\ pc[i] = "GenerateSummaryStatistics"
  /\ \/ /\ pcoll' = [pcoll EXCEPT ![i] = GenerateSlicedStatisticsImpl(pcoll[i])]
        /\ pc' = [pc EXCEPT ![i] = StepAfter("GenerateSummaryStatistics")]
        /\ Record(i, "GenerateSummaryStatistics")
        /\ UNCHANGED << err, failed_at >>
     \/ /\ StageFails(i, "GenerateSummaryStatistics")
        /\ UNCHANGED << pcoll, done >>
  /\ UNCHANGED << args, output_path, dir_exists, pipeline, result, fs,
                  runs, created, written >>

\* lines 96-100
WriteStatsOutput(i) ==
  /\ pc[i] = "WriteStatsOutput"
  /\ LET target == ShardedFileName(output_path[i], ShardNameTemplate) IN
       \/ /\ CanWriteFile(dirs, files, target)
          /\ files' = WriteToTFRecord(files, target, pcoll[i])
          /\ written' = [written EXCEPT ![i] = Append(@, target)]
          /\ pc' = [pc EXCEPT ![i] = StepAfter("WriteStatsOutput")]
          /\ Record(i, "WriteStatsOutput")
          /\ UNCHANGED << err, failed_at >>
       \/ /\ StageFails(i, "WriteStatsOutput")
          /\ UNCHANGED << files, written, done >>
  /\ UNCHANGED << args, output_path, dir_exists, pipeline, pcoll, result, dirs,
                  runs, created >>

\* line 102
LoadAndReturn(i) ==
  /\ pc[i] = "load"
  /\ IF CanLoadStatistics(files, output_path[i])
     THEN /\ result' = [result EXCEPT ![i] = { LoadStatistics(files, output_path[i]) }]
          /\ pc' = [pc EXCEPT ![i] = StepAfter("load")]
          /\ Record(i, "load")
          /\ UNCHANGED << err, failed_at >>
     ELSE /\ Raise(i, "load", << "NotFoundError" >>)
          /\ UNCHANGED << result, done >>
  /\ UNCHANGED << args, output_path, dir_exists, pipeline, pcoll, fs,
                  runs, created, written >>

Step(i) ==
  \/ CheckSchema(i)
  \/ ResolveOutputPath(i)
  \/ CheckDirExists(i)
  \/ MakeDirsStep(i)
  \/ ConstructPipeline(i)
  \/ ReadData(i)
  \/ DecodeData(i)
  \/ DetectAnomalies(i)
  \/ GenerateSummaryStatistics(i)
  \/ WriteStatsOutput(i)
  \/ LoadAndReturn(i)

\* calls made one after the other
Next == \E i \in Invocations : CallSeq(i) \/ Step(i)
Spec == Init /\ [][Next]_vars

\* calls made by concurrent callers
NextConc == \E i \in Invocations : Call(i) \/ Step(i)
SpecConc == Init /\ [][NextConc]_vars

\* ==== properties ==================================================================

Range(seq) == { seq[k] : k \in DOMAIN seq }
Returned(i) == pc[i] = "returned"
Generated(i) == args[i].output_path = NonePath
Resolved(i) == "resolve" \in Range(done[i])
Stepped(i) == pc'[i] # pc[i]

\* the summary the docstring promises for the records at loc: one dataset per
\* anomaly reason, holding the examples that exhibit it
MissingCount(loc, f) == Cardinality({ k \in DOMAIN DataAt(loc) : f \notin DataAt(loc)[k].tfrecord })
ObservedReasons(loc) == { << f, "missing" >> : f \in { g \in RequiredFeatures : MissingCount(loc, g) > 0 } }
ExpectedStats(loc) ==
  [datasets |-> { SliceStats(r, MissingCount(loc, r[1])) : r \in ObservedReasons(loc) }]

\* C1: a call whose stats_options has no schema fails with the configuration
\* error (ValueError) and none of its steps touches the file system or builds
\* or runs a pipeline, whatever data_location, output_path and pipeline_options are.
C1_FailFast ==
  [][\A i \in Invocations :
       (Stepped(i) /\ ~args'[i].stats_options.schema.present) =>
         /\ pc'[i] \in {"check_schema", "failed"}
         /\ dirs' = dirs /\ files' = files
         /\ created'[i] = {} /\ written'[i] = << >>
         /\ ~pipeline'[i].constructed /\ runs'[i] = 0
         /\ result'[i] = {}
         /\ (pc'[i] = "failed" => err'[i] = << "ValueError" >>)]_vars

C1_Witness ==
  \E i \in Invocations :
    /\ pc[i] = "failed" /\ err[i] = << "ValueError" >>
    /\ ~args[i].stats_options.schema.present
    /\ Generated(i) /\ args[i].pipeline_options = "DirectRunner"

\* C2: when a call returns, the summary it returns is what reloading the file
\* at the resolved output path gives at that moment, also when the path held
\* other content before the call.
C2_RoundTrip ==
  [][\A i \in Invocations :
       (Stepped(i) /\ pc'[i] = "returned") =>
         /\ CanLoadStatistics(files', output_path'[i])
         /\ result'[i] = { LoadStatistics(files', output_path'[i]) }]_vars

C2_Witness ==
  \E i \in Invocations :
    /\ Returned(i) /\ output_path[i] = << "f" >>
    /\ result[i] = { LoadStatistics(files, << "f" >>) }
    /\ StaleStats \notin result[i]

C4_Original ==
  \A i \in Invocations :
    (Generated(i) /\ Resolved(i)) =>
      /\ output_path[i][Len(output_path[i])] = "anomaly_stats"
      /\ Dirname(output_path[i]) \in created[i]
      /\ \A j \in Invocations \ {i} :
           /\ Resolved(j) => output_path[j] # output_path[i]
           /\ output_path[i] \notin Range(written[j])

\* C4 amended: the fixed file name is anomaly_stats.tfrecord; the rest as stated.
C4_DefaultPath ==
  \A i \in Invocations :
    (Generated(i) /\ Resolved(i)) =>
      /\ output_path[i][Len(output_path[i])] = TempFileName
      /\ Dirname(output_path[i]) \in TempDirs
      /\ Dirname(output_path[i]) \in created[i]
      /\ \A j \in Invocations \ {i} :
           /\ Resolved(j) => output_path[j] # output_path[i]
           /\ output_path[i] \notin Range(written[j])

C4_Witness ==
  \E i, j \in Invocations :
    /\ i # j /\ Generated(i) /\ Generated(j)
    /\ Returned(i) /\ Returned(j)
    /\ written[i] = << output_path[i] >> /\ written[j] = << output_path[j] >>

\* C5: when a pipeline stage raises, the call ends with that stage's exception:
\* the pipeline ran once, the reload did not run and nothing is returned, also
\* when a loadable file is already at the output path.
C5_FailurePropagates ==
  \A i \in Invocations :
    /\ runs[i] <= 1
    /\ failed_at[i] \in StageSet =>
         /\ pc[i] = "failed"
         /\ err[i] = StageError(failed_at[i])
         /\ runs[i] = 1
         /\ "load" \notin Range(done[i])
         /\ result[i] = {}

C5_Witness ==
  \E i \in Invocations :
    /\ failed_at[i] = "WriteStatsOutput" /\ pc[i] = "failed"
    /\ CanLoadStatistics(files, output_path[i])

\* C6: when the parent directory of the output path exists, the directory step
\* (lines 82-83) creates nothing, raises nothing and leaves the tree unchanged,
\* so a second call with the same output_path does not fail there.
C6_DirectoryIdempotent ==
  [][\A i \in Invocations :
       (Stepped(i) /\ pc[i] \in {"exists", "makedirs"}
          /\ DirPresent(dirs, OutputDirPath(i))) =>
         /\ dirs' = dirs /\ files' = files
         /\ created'[i] = created[i]
         /\ pc'[i] # "failed"]_vars

C6_Witness ==
  \E i, j \in Invocations :
    /\ i # j
    /\ args[i].output_path = << "a", "b", "f" >> /\ args[j].output_path = << "a", "b", "f" >>
    /\ Returned(i) /\ created[i] = { << "a" >>, << "a", "b" >> }
    /\ Returned(j) /\ dir_exists[j] /\ created[j] = {}

\* C7: a call that returns has written one file, at the resolved output path
\* itself (no shard suffix), replacing what was there; no step of the call
\* changes another file, or creates a directory that is not an ancestor of the
\* output path.
C7_SingleOutputFile ==
  [][\A i \in Invocations :
       Stepped(i) =>
         /\ \A p \in (DOMAIN files \cup DOMAIN files') \ { output_path'[i] } :
              p \in DOMAIN files /\ p \in DOMAIN files' /\ files'[p] = files[p]
         /\ (dirs' \ dirs) \subseteq Prefixes(Dirname(output_path'[i]))
         /\ (pc[i] = "WriteStatsOutput" /\ pc'[i] # "failed") =>
              files'[output_path[i]] = << ProtoCoderEncode(pcoll[i][1]) >>
         /\ pc'[i] = "returned" => written'[i] = << output_path'[i] >>]_vars

C7_Witness ==
  \E i \in Invocations :
    /\ Returned(i) /\ output_path[i] = << "f" >>
    /\ written[i] = << << "f" >> >> /\ created[i] = {}
    /\ files[<< "f" >>] # << ProtoCoderEncode(StaleStats) >>
    /\ DOMAIN files = { << "f" >> }

\* C8: the statements of a call complete in the order schema check, path
\* resolution, directory step, pipeline construction, read, decode, detect,
\* aggregate, write, reload (the MakeDirs part skipped when the directory
\* exists); a result exists only once all of them have completed.
WithoutMakeDirs(seq) == SelectSeq(seq, LAMBDA s : s # "makedirs")
IsPrefix(a, b) == Len(a) <= Len(b) /\ a = SubSeq(b, 1, Len(a))

C8_LinearOrder ==
  \A i \in Invocations :
    /\ IsPrefix(done[i], Order) \/ IsPrefix(done[i], WithoutMakeDirs(Order))
    /\ pc[i] = "load" => StageSet \subseteq Range(done[i])
    /\ Returned(i) => WithoutMakeDirs(done[i]) = WithoutMakeDirs(Order)
    /\ result[i] # {} => Returned(i)

C8_Witness ==
  \E i \in Invocations : Returned(i) /\ done[i] = Order /\ result[i] # {}

\* C9: when the pipeline of a call starts, the parent directory of the output
\* path exists, with all its ancestors.
C9_ParentDirExists ==
  \A i \in Invocations :
    pc[i] = "ReadData" =>
      /\ DirPresent(dirs, OutputDirPath(i))
      /\ Prefixes(OutputDirPath(i)) \subseteq dirs

\* C10 as stated: of two concurrent calls with different resolved output paths
\* neither fails because of the other's directory creation (MakeDirs does not
\* raise, and no call comes to write its file where the other call has made a
\* directory), and a call that returns returns the summary of its own input.
Nested(p, q) == p \in ProperPrefixes(q) \/ q \in ProperPrefixes(p)
Independent(i, j, ok) ==
  (i # j /\ Resolved(i) /\ Resolved(j) /\ output_path[i] # output_path[j] /\ ok) =>
    /\ failed_at[i] # "makedirs"
    /\ ~(pc[i] = "WriteStatsOutput" /\ output_path[i] \in created[j])
    /\ Returned(i) => result[i] = { ExpectedStats(args[i].data_location) }

C10_Original == \A i, j \in Invocations : Independent(i, j, TRUE)

\* C10 amended: the same, for output paths neither of which is an ancestor of
\* the other.
C10_Independent ==
  \A i, j \in Invocations : Independent(i, j, ~Nested(output_path[i], output_path[j]))

C10_Witness ==
  \E i, j \in Invocations :
    /\ args[i].output_path = << "a", "b", "f" >> /\ args[j].output_path = << "a", "b", "g" >>
    /\ ~dir_exists[i] /\ ~dir_exists[j]
    /\ "makedirs" \in Range(done[i]) /\ "makedirs" \in Range(done[j])
    /\ Returned(i) /\ Returned(j)
    /\ args[i].data_location # args[j].data_location

====
